---- MODULE Spec2Model ----
(***************************************************************************)
(* Model of plotly/subplots.py: make_subplots (the grid-to-domain geometry, *)
(* the subplot factory, the shared-axis pass, the inset pass), and the two  *)
(* operations on the grid reference table, _set_trace_grid_reference and    *)
(* _get_grid_subplot.                                                       *)
(*                                                                          *)
(* Numbers.  Paper coordinates are the floats of [0,1] in the code; here    *)
(* they are exact fixed-point integers, Scale units to 1.0.  The argument   *)
(* universes only hold arguments whose divisions are exact on that grid     *)
(* (ExactArgs), so no rounding is introduced by the model.                  *)
(*                                                                          *)
(* Names.  'xaxis3' is the pair <<"xaxis", 3>>, the trace label 'x3' is     *)
(* <<"x", 3>>: formatting '{type}{cnt}' is pairing, and the conversion      *)
(* 'xaxis3'.replace('axis', '') is AxisId.                                  *)
(*                                                                          *)
(* None.  Python's None is a value of the same shape as the values it       *)
(* stands in for: SpecNone, RefNone, NoId, and the empty tuple for an       *)
(* optional number or list.                                                 *)
(***************************************************************************)
EXTENDS Integers, Sequences, FiniteSets, TLC

VARIABLES
    pc,               \* position of the program
    args,             \* the arguments of the make_subplots call
    specs,            \* the specs grid as read so far (SpecUnread: not yet read)
    i,                \* index of the grid cell / inset the loop is at
    layout,           \* go.Layout(): name -> container
    max_subplot_ids,  \* the per-kind counters
    grid_ref,         \* rows x cols table of references
    insets_ref,       \* list of inset references
    list_of_domains,  \* the x and y domains computed, in the order computed
    domains_grid,     \* rows x cols table of the [x_domain, y_domain] computed
    exc,              \* where make_subplots raised ("": it has not)
    fig,              \* the returned figure (FigNone until returned)
    call              \* the last call on the figure: its arguments, trace, outcome

vars == <<pc, args, specs, i, layout, max_subplot_ids, grid_ref, insets_ref,
          domains_grid, list_of_domains, exc, fig, call>>

-----------------------------------------------------------------------------
(* Bounds of the model *)

\* largest grid: rows * cols <= MaxCells
MaxCells == 4
\* largest colspan / rowspan offered to a cell
MaxSpan == 2
\* longest insets list
MaxInsets == 1
\* largest grid of the calls that are made one after another
MaxCellsAgain == 2
\* largest grid of the calls whose cells are of every subplot type
MaxCellsKinds == 2

\* fixed-point unit: Scale = 1.0
Scale == 36 * 1000

-----------------------------------------------------------------------------
(* Python helpers *)

Max(a, b) == IF a >= b THEN a ELSE b
Min(a, b) == IF a <= b THEN a ELSE b

\* len(seq) of a Python list, held as a function on 0..len-1
PyLen(seq) == Cardinality(DOMAIN seq)

\* seq[k] with Python's negative indices; IndexError outside -len..len-1
PyInRange(seq, k) == -PyLen(seq) <= k /\ k < PyLen(seq)
PyGet(seq, k) == IF k < 0 THEN seq[PyLen(seq) + k] ELSE seq[k]

\* sum(seq[:k]) of a 0-based list
RECURSIVE SumTo(_, _)
SumTo(seq, k) == IF k <= 0 THEN 0 ELSE SumTo(seq, k - 1) + seq[k - 1]

-----------------------------------------------------------------------------
(* Constants of the module (subplots.py lines 14, 25) *)

_subplot_types == {"scene", "geo", "polar", "ternary", "mapbox"}
\* _subplot_prop_named_subplot with 'scene' among them
_subplot_prop_named_subplot_WithScene == {"polar", "ternary", "mapbox", "scene"}

_subplot_prop_named_subplot == {"polar", "ternary", "mapbox"}

\* _get_initial_max_subplot_ids
_get_initial_max_subplot_ids ==
    [k \in _subplot_types \cup {"xaxis", "yaxis"} |-> 0]

-----------------------------------------------------------------------------
(* None values *)

NoId == <<"", 0>>
SpecNone == [type |-> "None", colspan |-> 1, rowspan |-> 1,
             l |-> 0, r |-> 0, b |-> 0, t |-> 0]
SpecUnread == [type |-> "Unread", colspan |-> 1, rowspan |-> 1,
               l |-> 0, r |-> 0, b |-> 0, t |-> 0]
RefNone == [subplot_type |-> "None", layout_keys |-> <<>>,
            trace_kwargs |-> <<>>, spec |-> SpecNone]
DomainNone == << <<0, 0>>, <<0, 0>> >>
FigNone == [made |-> FALSE, layout |-> <<>>, _grid_ref |-> <<>>]
TraceNone == [type |-> "None", props |-> {}, values |-> <<>>]
CallNone == [op |-> "None", row |-> 0, col |-> 0, trace_in |-> TraceNone,
             trace |-> TraceNone, outcome |-> "None", handle |-> <<>>]

\* spec_defaults (lines 476-484)
spec_defaults == [type |-> "xy", colspan |-> 1, rowspan |-> 1,
                  l |-> 0, r |-> 0, b |-> 0, t |-> 0]
\* inset_defaults (lines 504-511); w, h: the empty tuple is 'to_end'
inset_defaults == [cell |-> <<1, 1>>, type |-> "xy", l |-> 0, w |-> <<>>,
                   b |-> 0, h |-> <<>>]

-----------------------------------------------------------------------------
(* Geometry: make_subplots lines 346-414 and 559-571 *)

\* row_dir with the two start cells exchanged
row_dir_Exchanged(a) == IF a.start_cell = "bottom-left" THEN -1 ELSE 1

\* row_dir (lines 347-352); start_cell has been validated
row_dir(a) == IF a.start_cell = "bottom-left" THEN 1 ELSE -1

\* horizontal_spacing (lines 361-362): default 0.2 / cols
horizontal_spacing(a) ==
    IF a.horizontal_spacing = <<>>
    THEN (2 * Scale) \div (10 * a.cols)
    ELSE a.horizontal_spacing[1]

\* vertical_spacing (lines 365-369): default 0.3 / rows, 0.5 / rows with titles
vertical_spacing(a) ==
    IF a.vertical_spacing = <<>>
    THEN IF a.subplot_titles # <<>>
         THEN (5 * Scale) \div (10 * a.rows)
         ELSE (3 * Scale) \div (10 * a.rows)
    ELSE a.vertical_spacing[1]

\* max_width (lines 376-380)
max_width(a) == IF a.row_titles # <<>> THEN (98 * Scale) \div 100 ELSE Scale

RECURSIVE SeqSum(_)
SeqSum(s) == IF s = <<>> THEN 0 ELSE Head(s) + SeqSum(Tail(s))

\* widths (lines 381-389), a 0-based list
widths(a) ==
    LET total == max_width(a) - horizontal_spacing(a) * (a.cols - 1)
    IN  IF a.column_widths = <<>>
        THEN [c \in 0..(a.cols - 1) |-> total \div a.cols]
        ELSE [c \in 0..(a.cols - 1) |->
                 (total * a.column_widths[c + 1]) \div SeqSum(a.column_widths)]

\* heights never reversed
heights_NotReversed(a) ==
    LET total == Scale - vertical_spacing(a) * (a.rows - 1)
    IN  IF a.row_heights = <<>>
        THEN [r \in 0..(a.rows - 1) |-> total \div a.rows]
        ELSE [r \in 0..(a.rows - 1) |->
                 (total * a.row_heights[r + 1]) \div SeqSum(a.row_heights)]

\* heights (lines 398-408), a 0-based list; reversed for 'top-left' unless the
\* heights came through the legacy row_width keyword
heights(a) ==
    LET total == Scale - vertical_spacing(a) * (a.rows - 1)
        given == [r \in 0..(a.rows - 1) |->
                     (total * a.row_heights[r + 1]) \div SeqSum(a.row_heights)]
    IN  IF a.row_heights = <<>>
        THEN [r \in 0..(a.rows - 1) |-> total \div a.rows]
        ELSE IF row_dir(a) < 0 /\ ~a.use_legacy_row_heights_order
             THEN [r \in 0..(a.rows - 1) |-> given[a.rows - 1 - r]]
             ELSE given

\* every division above is exact on the fixed-point grid
ExactArgs(a) ==
    LET tw == max_width(a) - horizontal_spacing(a) * (a.cols - 1)
        th == Scale - vertical_spacing(a) * (a.rows - 1)
    IN  /\ a.horizontal_spacing = <<>> => (2 * Scale) % (10 * a.cols) = 0
        /\ a.vertical_spacing = <<>> =>
              /\ (3 * Scale) % (10 * a.rows) = 0
              /\ (5 * Scale) % (10 * a.rows) = 0
        /\ IF a.column_widths = <<>>
           THEN tw % a.cols = 0
           ELSE \A k \in 1..a.cols :
                   (tw * a.column_widths[k]) % SeqSum(a.column_widths) = 0
        /\ IF a.row_heights = <<>>
           THEN th % a.rows = 0
           ELSE \A k \in 1..a.rows :
                   (th * a.row_heights[k]) % SeqSum(a.row_heights) = 0

\* row_seq = range(rows)[::row_dir] (line 560), 0-based
row_seq(a) ==
    [k \in 0..(a.rows - 1) |-> IF row_dir(a) > 0 THEN k ELSE a.rows - 1 - k]

\* grid (lines 564-571): grid[k][c] is the start x and start y of the cell of
\* column c in row row_seq[k]
\* grid with the spacings left out of the origins
grid_NoSpacing(a) ==
    [k \in 0..(a.rows - 1) |->
        [c \in 0..(a.cols - 1) |->
            << SumTo(widths(a), c), SumTo(heights(a), row_seq(a)[k]) >> ]]

grid(a) ==
    [k \in 0..(a.rows - 1) |->
        [c \in 0..(a.cols - 1) |->
            << SumTo(widths(a), c) + c * horizontal_spacing(a),
               SumTo(heights(a), row_seq(a)[k])
                   + row_seq(a)[k] * vertical_spacing(a) >> ]]

\* CellDomain with the right padding added instead of subtracted
CellDomain_PadSign(a, r, c, spec) ==
    LET c_spanned == c + spec.colspan - 1
        r_spanned == r + spec.rowspan - 1
        x_s == grid(a)[r][c][1] + spec.l
        x_e == grid(a)[r][c_spanned][1] + widths(a)[c_spanned] + spec.r
        y_s == IF row_dir(a) > 0
               THEN grid(a)[r][c][2] + spec.b
               ELSE grid(a)[r_spanned][c][2] + spec.b
        y_e == IF row_dir(a) > 0
               THEN grid(a)[r_spanned][c][2] + heights(a)[r_spanned] - spec.t
               ELSE grid(a)[r][c][2]
                        + PyGet(heights(a), -1 - r) - spec.t
    IN  << <<x_s, x_e>>, <<y_s, y_e>> >>

\* the x and y domain of the grid cell (r, c) with spec (lines 601-614);
\* the spans are inside the grid
CellDomain(a, r, c, spec) ==
    LET c_spanned == c + spec.colspan - 1
        r_spanned == r + spec.rowspan - 1
        x_s == grid(a)[r][c][1] + spec.l
        x_e == grid(a)[r][c_spanned][1] + widths(a)[c_spanned] - spec.r
        y_s == IF row_dir(a) > 0
               THEN grid(a)[r][c][2] + spec.b
               ELSE grid(a)[r_spanned][c][2] + spec.b
        y_e == IF row_dir(a) > 0
               THEN grid(a)[r_spanned][c][2] + heights(a)[r_spanned] - spec.t
               ELSE grid(a)[r][c][2]
                        + PyGet(heights(a), -1 - r) - spec.t
    IN  << <<x_s, x_e>>, <<y_s, y_e>> >>

\* the x and y domain of an inset over the cell (r, c) (lines 649-663)
InsetDomain(a, r, c, inset) ==
    LET x_s == grid(a)[r][c][1] + (inset.l * widths(a)[c]) \div Scale
        x_e == IF inset.w = <<>>
               THEN grid(a)[r][c][1] + widths(a)[c]
               ELSE x_s + (inset.w[1] * widths(a)[c]) \div Scale
        hh  == PyGet(heights(a), -1 - r)
        y_s == grid(a)[r][c][2] + (inset.b * hh) \div Scale
        y_e == IF inset.h = <<>>
               THEN grid(a)[r][c][2] + hh
               ELSE y_s + (inset.h[1] * hh) \div Scale
    IN  << <<x_s, x_e>>, <<y_s, y_e>> >>

-----------------------------------------------------------------------------
(* Subplot factory: lines 836-938 *)

\* layout[key] = value
SetItem(lay, key, value) ==
    [k \in (DOMAIN lay) \cup {key} |-> IF k = key THEN value ELSE lay[k]]

\* _get_cartesian_label numbering from 0
_get_cartesian_label_ZeroBased(x_or_y, cnt) == <<x_or_y, cnt - 1>>

\* "x{cnt}".format(cnt=cnt): the value of trace.xaxis / trace.yaxis
\* (_get_cartesian_label, lines 941-944)
_get_cartesian_label(x_or_y, cnt) == <<x_or_y, cnt>>

\* AxisName with the y axes numbered one on
AxisName_YOneOn(x_or_y, cnt) ==
    IF x_or_y = "x" THEN <<"xaxis", cnt>> ELSE <<"yaxis", cnt + 1>>

\* 'xaxis{cnt}' / 'yaxis{cnt}' (lines 854-855)
AxisName(x_or_y, cnt) == <<IF x_or_y = "x" THEN "xaxis" ELSE "yaxis", cnt>>

\* axis_name.replace('axis', '') (line 793): 'xaxis3' -> 'x3'; a name without
\* 'axis' in it is left as it is
AxisId(name) ==
    IF name[1] = "xaxis" THEN <<"x", name[2]>>
    ELSE IF name[1] = "yaxis" THEN <<"y", name[2]>>
    ELSE name

\* _init_subplot_xy (lines 836-872)
_init_subplot_xy(lay, x_domain, y_domain, ids) ==
    LET x_cnt == ids["xaxis"] + 1
        y_cnt == ids["yaxis"] + 1
        x_label == _get_cartesian_label("x", x_cnt)
        y_label == _get_cartesian_label("y", y_cnt)
        xaxis_name == AxisName("x", x_cnt)
        yaxis_name == AxisName("y", y_cnt)
        x_axis == [domain |-> x_domain, anchor |-> y_label,
                   matches |-> NoId, showticklabels |-> TRUE]
        y_axis == [domain |-> y_domain, anchor |-> x_label,
                   matches |-> NoId, showticklabels |-> TRUE]
    IN  [raised |-> FALSE,
         ref |-> [subplot_type |-> "xy",
                  layout_keys |-> <<xaxis_name, yaxis_name>>,
                  trace_kwargs |-> [xaxis |-> x_label, yaxis |-> y_label],
                  spec |-> SpecNone],
         layout |-> SetItem(SetItem(lay, xaxis_name, x_axis), yaxis_name, y_axis),
         max_subplot_ids |-> [ids EXCEPT !["xaxis"] = x_cnt, !["yaxis"] = y_cnt]]

\* _init_subplot_single (lines 875-899); line 897 stores the new count under
\* 'scene' whatever the subplot type is
_init_subplot_single(lay, subplot_type, x_domain, y_domain, ids) ==
    LET cnt == ids[subplot_type] + 1
        label == <<subplot_type, cnt>>
        scene == [domain |-> [x |-> x_domain, y |-> y_domain]]
        trace_key == IF subplot_type \in _subplot_prop_named_subplot
                     THEN "subplot" ELSE subplot_type
    IN  [raised |-> FALSE,
         ref |-> [subplot_type |-> subplot_type,
                  layout_keys |-> <<label>>,
                  trace_kwargs |-> (trace_key :> label),
                  spec |-> SpecNone],
         layout |-> SetItem(lay, label, scene),
         max_subplot_ids |-> [ids EXCEPT !["scene"] = cnt]]

\* _init_subplot_domain (lines 902-909)
_init_subplot_domain(lay, x_domain, y_domain, ids) ==
    [raised |-> FALSE,
     ref |-> [subplot_type |-> "domain",
              layout_keys |-> <<>>,
              trace_kwargs |-> [domain |-> [x |-> x_domain, y |-> y_domain]],
              spec |-> SpecNone],
     layout |-> lay,
     max_subplot_ids |-> ids]

\* the clamp of a domain (lines 921-922)
Clamp(d) == <<Max(0, d[1]), Min(Scale, d[2])>>

\* _init_subplot (lines 912-938): the reference element, the layout and the
\* counters after the call, or raised
_init_subplot(lay, subplot_type, x_domain, y_domain, ids) ==
    IF subplot_type = "xy"
    THEN _init_subplot_xy(lay, Clamp(x_domain), Clamp(y_domain), ids)
    ELSE IF subplot_type \in _subplot_types
    THEN _init_subplot_single(lay, subplot_type,
                              Clamp(x_domain), Clamp(y_domain), ids)
    ELSE IF subplot_type = "domain"
    THEN _init_subplot_domain(lay, Clamp(x_domain), Clamp(y_domain), ids)
    ELSE [raised |-> TRUE, ref |-> RefNone, layout |-> lay,
          max_subplot_ids |-> ids]

-----------------------------------------------------------------------------
(* Shared axes: _configure_shared_axes, lines 770-833 *)

\* rows_iter with the two directions exchanged
rows_iter_Exchanged(rows, rdir) ==
    [k \in 1..rows |-> IF rdir > 0 THEN rows - k ELSE k - 1]

\* rows_iter (lines 776-779) as a list: rows_iter[k], k in 1..rows
rows_iter(rows, rdir) ==
    [k \in 1..rows |-> IF rdir < 0 THEN rows - k ELSE k - 1]

\* layout_key_ind = ['x', 'y'].index(x_or_y) (line 774), as a 1-based index
layout_key_ind(x_or_y) == IF x_or_y = "x" THEN 1 ELSE 2

\* update_axis_matches with the span left untested
update_axis_matches_AnySpan(lay, first_axis_id, ref, remove_label, x_or_y) ==
    IF ref = RefNone
    THEN [first |-> first_axis_id, layout |-> lay]
    ELSE
    IF ref.subplot_type = "xy"
    THEN IF first_axis_id = NoId
         THEN [first |-> AxisId(ref.layout_keys[layout_key_ind(x_or_y)]),
               layout |-> lay]
         ELSE LET axis_name == ref.layout_keys[layout_key_ind(x_or_y)]
              IN  [first |-> first_axis_id,
                   layout |->
                      [lay EXCEPT ![axis_name] =
                          [@ EXCEPT !.matches = first_axis_id,
                                    !.showticklabels =
                                        IF remove_label THEN FALSE ELSE @]]]
    ELSE [first |-> first_axis_id, layout |-> lay]

\* update_axis_matches (lines 781-801): the first axis id and the layout after
update_axis_matches(lay, first_axis_id, ref, remove_label, x_or_y) ==
    IF ref = RefNone
    THEN [first |-> first_axis_id, layout |-> lay]
    ELSE
    LET span == IF x_or_y = "x" THEN ref.spec.colspan ELSE ref.spec.rowspan
    IN  IF ref.subplot_type = "xy" /\ span = 1
        THEN IF first_axis_id = NoId
             THEN [first |-> AxisId(ref.layout_keys[layout_key_ind(x_or_y)]),
                   layout |-> lay]
             ELSE LET axis_name == ref.layout_keys[layout_key_ind(x_or_y)]
                  IN  [first |-> first_axis_id,
                       layout |->
                          [lay EXCEPT ![axis_name] =
                              [@ EXCEPT !.matches = first_axis_id,
                                        !.showticklabels =
                                            IF remove_label THEN FALSE ELSE @]]]
        ELSE [first |-> first_axis_id, layout |-> lay]

\* one run of update_axis_matches over the cells of visits, <<r, c, remove>>
\* each, from the k-th on, first_axis_id threaded through
RECURSIVE VisitCells(_, _, _, _, _, _)
VisitCells(lay, first, visits, k, gref, x_or_y) ==
    IF k > Len(visits)
    THEN lay
    ELSE LET v == visits[k]
             u == update_axis_matches(lay, first, gref[v[1]][v[2]], v[3], x_or_y)
         IN  VisitCells(u.layout, u.first, visits, k + 1, gref, x_or_y)

\* the runs of groups from the g-th on, each starting with first_axis_id = None
RECURSIVE VisitGroups(_, _, _, _, _)
VisitGroups(lay, groups, g, gref, x_or_y) ==
    IF g > Len(groups)
    THEN lay
    ELSE VisitGroups(VisitCells(lay, NoId, groups[g], 1, gref, x_or_y),
                     groups, g + 1, gref, x_or_y)

\* ok_to_remove_label with the row index tested whatever the direction
ok_to_remove_label_RowIndex(x_or_y, c, ri, r, rows, rdir) ==
    IF x_or_y = "y" THEN c > 0 ELSE r > 0

\* ok_to_remove_label of the 'all' branch (lines 827-830); ri is the place of
\* row r in rows_iter, from 0
ok_to_remove_label(x_or_y, c, ri, r, rows, rdir) ==
    IF x_or_y = "y" THEN c > 0
    ELSE IF rdir > 0 THEN ri > 0 ELSE r < rows - 1

\* _configure_shared_axes (lines 803-833): the layout after the pass
_configure_shared_axes(lay, gref, x_or_y, shared, rdir) ==
    LET rows == PyLen(gref)
        cols == PyLen(gref[0])
        ri == rows_iter(rows, rdir)
    IN IF shared = "columns" \/ (x_or_y = "x" /\ shared = "True")
        THEN VisitGroups(lay,
                 [g \in 1..cols |->
                     [k \in 1..rows |-> <<ri[k], g - 1, x_or_y = "x">>]],
                 1, gref, x_or_y)
        ELSE IF shared = "rows" \/ (x_or_y = "y" /\ shared = "True")
        THEN VisitGroups(lay,
                 [g \in 1..rows |->
                     [k \in 1..cols |-> <<ri[g], k - 1, x_or_y = "y">>]],
                 1, gref, x_or_y)
        ELSE IF shared = "all"
        THEN VisitCells(lay, NoId,
                 [n \in 1..(rows * cols) |->
                     LET c == (n - 1) \div rows
                         k == ((n - 1) % rows) + 1
                     IN  << ri[k], c,
                            ok_to_remove_label(x_or_y, c, k - 1, ri[k],
                                               rows, rdir) >>],
                 1, gref, x_or_y)
        ELSE lay

-----------------------------------------------------------------------------
(* Titles: lines 679-728 and _build_subplot_title_annotations, 947-1041 *)

AnnotationsKey == <<"annotations", 0>>

\* domains_list.extend(domain_pair) for the pairs, from the k-th on, that are
\* not None
RECURSIVE ExtendAll(_, _)
ExtendAll(pairs, k) ==
    IF k > Len(pairs) THEN <<>>
    ELSE (IF pairs[k] = DomainNone THEN <<>> ELSE <<pairs[k][1], pairs[k][2]>>)
             \o ExtendAll(pairs, k + 1)

\* domains_list of the column titles (lines 688-698): the cells of
\* domains_grid[-1] if row_dir > 0, of domains_grid[0] otherwise
ColumnTitleDomains(a, dgrid) ==
    LET row == IF row_dir(a) > 0 THEN PyGet(dgrid, -1) ELSE PyGet(dgrid, 0)
    IN  ExtendAll([k \in 1..a.cols |-> row[k - 1]], 1)

\* domains_list of the row titles (lines 711-719): the last cell of each row,
\* the rows in the order of rows_iter
RowTitleDomains(a, dgrid) ==
    LET ri == rows_iter(a.rows, row_dir(a))
    IN  ExtendAll([k \in 1..a.rows |-> PyGet(dgrid[ri[k]], -1)], 1)

\* the annotations of the titles from the index-th on (lines 1018-1040),
\* index from 0; the edge stands for the anchors and the text angle
RECURSIVE PlotTitles(_, _, _, _)
PlotTitles(subplot_titles, list_of_domains_, title_edge, index) ==
    IF index >= Len(subplot_titles)
    THEN <<>>
    ELSE LET x_domains == list_of_domains_[2 * index + 1]
             y_domains == list_of_domains_[2 * index + 2]
         IN  (IF subplot_titles[index + 1] = ""
                    \/ index >= Len(list_of_domains_) \div 2
              THEN <<>>
              ELSE << [text |-> subplot_titles[index + 1],
                       x |-> IF title_edge = "right" THEN x_domains[2]
                             ELSE (x_domains[1] + x_domains[2]) \div 2,
                       y |-> IF title_edge = "right"
                             THEN (y_domains[1] + y_domains[2]) \div 2
                             ELSE y_domains[2],
                       title_edge |-> title_edge] >>)
             \o PlotTitles(subplot_titles, list_of_domains_, title_edge,
                           index + 1)

\* _build_subplot_title_annotations (lines 947-1041) for the title edges
\* 'top' and 'right'
_build_subplot_title_annotations(subplot_titles, list_of_domains_, title_edge) ==
    PlotTitles(subplot_titles, list_of_domains_, title_edge, 0)

-----------------------------------------------------------------------------
(* _build_grid_str, lines 1044-1158: only whether it raises *)

\* max() of an empty list when no cell holds a subplot (lines 1081-1084); the
\* cell string of a host cell that holds none (lines 1151-1156)
_build_grid_str_raises(a, gref) ==
    \/ \A r \in 0..(a.rows - 1), c \in 0..(a.cols - 1) : gref[r][c] = RefNone
    \/ \E n \in 1..Len(a.insets) :
          gref[a.insets[n].cell[1] - 1][a.insets[n].cell[2] - 1] = RefNone

-----------------------------------------------------------------------------
(* Operations on the figure: lines 1161-1258 *)

\* RowColBelowRange with 0 let through
RowColBelowRange_ZeroPasses(row, col) == row < 0 \/ col < 0

\* the row and col checks of _set_trace_grid_reference (lines 1162-1167)
RowColBelowRange(row, col) == row <= 0 \/ col <= 0

\* _set_trace_grid_reference (lines 1161-1197): raised, and the trace after
_set_trace_grid_reference(trace, gref, row, col) ==
    IF RowColBelowRange(row, col)
    THEN [raised |-> TRUE, trace |-> trace]
    ELSE IF \/ ~PyInRange(gref, row - 1)
            \/ ~PyInRange(PyGet(gref, row - 1), col - 1)
    THEN [raised |-> TRUE, trace |-> trace]            \* IndexError
    ELSE LET ref == PyGet(PyGet(gref, row - 1), col - 1)
         IN  IF ref = RefNone
             THEN [raised |-> TRUE, trace |-> trace]
             ELSE IF \E k \in DOMAIN ref.trace_kwargs : k \notin trace.props
             THEN [raised |-> TRUE, trace |-> trace]
             ELSE [raised |-> FALSE,
                   trace |-> [trace EXCEPT !.values =
                       [k \in (DOMAIN @) \cup (DOMAIN ref.trace_kwargs) |->
                           IF k \in DOMAIN ref.trace_kwargs
                           THEN ref.trace_kwargs[k] ELSE @[k]]]]

\* IndexOutOfRange with 0 let through
IndexOutOfRange_ZeroPasses(k, n) == k < 0 \/ n < k

\* the test of a row or col of _get_grid_subplot (lines 1225, 1234), n the number
\* of rows or cols
IndexOutOfRange(k, n) == k < 1 \/ n < k

\* _get_grid_subplot (lines 1200-1258): the outcome ("raised", "None",
\* "domain", "single", "xy") and the objects returned, each with the key it
\* has in fig.layout (NoId for the domain descriptor)
_get_grid_subplot(f, row, col) ==
    LET rows == PyLen(f._grid_ref)
        cols == PyLen(f._grid_ref[0])
    IN  IF IndexOutOfRange(row, rows)
        THEN [outcome |-> "raised", handle |-> <<>>]
        ELSE IF IndexOutOfRange(col, cols)
        THEN [outcome |-> "raised", handle |-> <<>>]
        ELSE LET ref == PyGet(PyGet(f._grid_ref, row - 1), col - 1)
                 layout_keys == ref.layout_keys
             IN  IF ref = RefNone
                 THEN [outcome |-> "None", handle |-> <<>>]
                 ELSE IF Len(layout_keys) = 0
                 THEN [outcome |-> "domain",
                       handle |-> << [key |-> NoId,
                                      obj |-> ref.trace_kwargs["domain"]] >>]
                 ELSE IF Len(layout_keys) = 1
                 THEN [outcome |-> "single",
                       handle |-> << [key |-> layout_keys[1],
                                      obj |-> f.layout[layout_keys[1]]] >>]
                 ELSE IF Len(layout_keys) = 2
                 THEN [outcome |-> "xy",
                       handle |-> << [key |-> layout_keys[1],
                                      obj |-> f.layout[layout_keys[1]]],
                                     [key |-> layout_keys[2],
                                      obj |-> f.layout[layout_keys[2]]] >>]
                 ELSE [outcome |-> "raised", handle |-> <<>>]

-----------------------------------------------------------------------------
(* The inputs.  Four families of inputs, one per specification: "main"     *)
(* (subplot kinds, identifiers, insets), "geom" (spans, padding, spacing,  *)
(* both start cells), "shared" (the shared_xaxes / shared_yaxes values),   *)
(* "table" (the calls on the finished figure).  Outside "main" only the    *)
(* 1 x 1 grid is given insets.                                             *)

\* the defaults of the signature (lines 41-59); None is "None" or <<>>
DefaultArgs(rows, cols) ==
    [rows |-> rows, cols |-> cols,
     shared_xaxes |-> "False", shared_yaxes |-> "False",
     start_cell |-> "top-left",
     horizontal_spacing |-> <<>>, vertical_spacing |-> <<>>,
     subplot_titles |-> <<>>, column_widths |-> <<>>, row_heights |-> <<>>,
     use_legacy_row_heights_order |-> FALSE,
     insets |-> <<>>, column_titles |-> <<>>, row_titles |-> <<>>]

ArgsNone == DefaultArgs(0, 0)

Shapes == {s \in (1..MaxCells) \X (1..MaxCells) : s[1] * s[2] <= MaxCells}

SharedVals == {"None", "True", "False", "rows", "columns", "cols", "all", "both"}

\* lists of at most MaxInsets insets over choices
\* the values of 'type' in a spec or an inset: 'xy', those of _subplot_types
\* (line 14), 'domain', and one that _init_subplot does not know
TypeStrings == {"xy", "domain", "bogus"} \cup _subplot_types

\* the values of shared_xaxes / shared_yaxes that line 515 lets through
AcceptedSharedVals == SharedVals \ {"columns", "both"}

InsetLists(choices) ==
    UNION {[1..n -> choices] : n \in 0..MaxInsets}

MainInsets == {inset_defaults, [inset_defaults EXCEPT !.type = "polar"]}

\* insets over several host cells, some outside the grid, plain and with
\* l, b, w, h given; a pie inset pushed past the right edge of the paper
PlacedInsets ==
    {[inset_defaults EXCEPT !.cell = cl, !.l = g[1], !.b = g[2],
                            !.w = g[3], !.h = g[4]] :
        cl \in {<<1, 1>>, <<2, 1>>, <<1, 2>>, <<0, 1>>, <<3, 1>>},
        g \in {<<0, 0, <<>>, <<>> >>,
               <<Scale \div 2, Scale \div 4, <<Scale \div 4>>, <<Scale \div 2>> >>}}
    \cup {[inset_defaults EXCEPT !.type = "domain", !.l = Scale + Scale \div 2]}

\* the products of the inset fractions are exact on the fixed-point grid
ExactInsets(a) ==
    \A n \in 1..Len(a.insets) :
        LET inset == a.insets[n]
            r == inset.cell[1] - 1
            c == inset.cell[2] - 1
        IN  (0 <= r /\ r < a.rows /\ 0 <= c /\ c < a.cols) =>
               /\ (inset.l * widths(a)[c]) % Scale = 0
               /\ (inset.b * PyGet(heights(a), -1 - r)) % Scale = 0
               /\ inset.w # <<>> => (inset.w[1] * widths(a)[c]) % Scale = 0
               /\ inset.h # <<>> =>
                      (inset.h[1] * PyGet(heights(a), -1 - r)) % Scale = 0

\* titles for n columns or rows: none, one each, one each but an empty first
TitleTexts == <<"A", "B", "C", "D", "E", "F", "G", "H">>
Titles(kind, n) ==
    IF kind = "None" THEN <<>>
    ELSE [k \in 1..n |-> IF kind = "but first" /\ k = 1 THEN ""
                         ELSE TitleTexts[k]]

\* the midpoints the titles are put at are exact on the fixed-point grid
ExactTitles(a) ==
    /\ a.column_titles # <<>> =>
          /\ horizontal_spacing(a) % 2 = 0
          /\ \A c \in 0..(a.cols - 1) : widths(a)[c] % 2 = 0
    /\ a.row_titles # <<>> =>
          /\ vertical_spacing(a) % 2 = 0
          /\ \A r \in 0..(a.rows - 1) : heights(a)[r] % 2 = 0

\* unequal column_widths / row_heights: 1, 2, 3, ...
Weights(n) == [k \in 1..n |-> k]

Calls(F) ==
    {a \in
        CASE F = "main" ->
               {[DefaultArgs(s[1], s[2]) EXCEPT !.insets = ins] :
                    s \in Shapes, ins \in InsetLists(MainInsets)}
          [] F = "geom" ->
               {[DefaultArgs(s[1], s[2]) EXCEPT
                     !.start_cell = sc, !.horizontal_spacing = sp,
                     !.vertical_spacing = sp, !.insets = ins,
                     !.column_widths = IF wt THEN Weights(s[2]) ELSE <<>>,
                     !.row_heights = IF wt THEN Weights(s[1]) ELSE <<>>] :
                    s \in Shapes, sc \in {"top-left", "bottom-left"},
                    sp \in {<<>>, <<0>>}, wt \in BOOLEAN,
                    ins \in InsetLists({inset_defaults})}
          [] F = "shared" ->
               {[DefaultArgs(s[1], s[2]) EXCEPT
                     !.start_cell = sc, !.shared_xaxes = sh[1],
                     !.shared_yaxes = sh[2], !.insets = ins] :
                    s \in Shapes, sc \in {"top-left", "bottom-left"},
                    sh \in ({"True", "False"} \X {"True", "False"})
                           \cup (SharedVals \X {"False"})
                           \cup ({"False"} \X SharedVals),
                    ins \in InsetLists({inset_defaults})}
          [] F = "inset" ->
               {[DefaultArgs(s[1], s[2]) EXCEPT
                     !.start_cell = sc, !.insets = ins,
                     !.column_widths =
                         IF wt = "none" THEN <<>> ELSE Weights(s[2]),
                     !.row_heights =
                         IF wt = "none" THEN <<>> ELSE Weights(s[1]),
                     !.use_legacy_row_heights_order = (wt = "row_width")] :
                    s \in Shapes, sc \in {"top-left", "bottom-left"},
                    wt \in {"none", "row_heights", "row_width"},
                    ins \in InsetLists(PlacedInsets)}
          [] F = "link" ->
               {[DefaultArgs(s[1], s[2]) EXCEPT
                     !.start_cell = sc, !.shared_xaxes = sh[1],
                     !.shared_yaxes = sh[2], !.insets = ins] :
                    s \in Shapes, sc \in {"top-left", "bottom-left"},
                    sh \in (AcceptedSharedVals \X {"False"})
                           \cup ({"False"} \X AcceptedSharedVals)
                           \cup {<<"True", "True">>, <<"all", "all">>},
                    ins \in InsetLists({inset_defaults})}
          [] F = "kinds" ->
               {[DefaultArgs(s[1], s[2]) EXCEPT !.insets = ins] :
                    s \in {t \in Shapes : t[1] * t[2] <= MaxCellsKinds},
                    ins \in InsetLists({[inset_defaults EXCEPT !.type = t] :
                                            t \in TypeStrings})}
          [] F = "again" ->
               {[DefaultArgs(s[1], s[2]) EXCEPT !.insets = ins] :
                    s \in {t \in Shapes : t[1] * t[2] <= MaxCellsAgain},
                    ins \in InsetLists({inset_defaults})}
          [] F = "titles" ->
               {[DefaultArgs(s[1], s[2]) EXCEPT
                     !.start_cell = sc,
                     !.column_titles = Titles(ct, s[2]),
                     !.row_titles = Titles(rt, s[1]), !.insets = ins] :
                    s \in Shapes, sc \in {"top-left", "bottom-left"},
                    ct \in {"None", "all", "but first"},
                    rt \in {"None", "all", "but first"},
                    ins \in InsetLists({inset_defaults})}
          [] OTHER ->
               {[DefaultArgs(s[1], s[2]) EXCEPT !.insets = ins] :
                    s \in Shapes,
                    ins \in InsetLists({inset_defaults})}
     : /\ ExactArgs(a)
       /\ ExactInsets(a)
       /\ ExactTitles(a)
       /\ F \notin {"main", "inset", "again", "link", "kinds"}
             /\ a.insets # <<>> =>
             a.rows = 1 /\ a.cols = 1
       /\ F = "link" /\ a.insets # <<>> => a.rows * a.cols <= 2}

\* specs with the defaults filled in (_check_keys_and_fill, lines 417-485)
Cell(type, colspan, rowspan, l, r, b, t) ==
    [type |-> type, colspan |-> colspan, rowspan |-> rowspan,
     l |-> l, r |-> r, b |-> b, t |-> t]

Pad == Scale \div 20

CellChoices(F) ==
    CASE F = "main" ->
           {SpecNone} \cup
           {Cell(k, 1, 1, 0, 0, 0, 0) : k \in {"xy", "scene", "polar", "domain"}}
      [] F = "geom" ->
           {SpecNone} \cup
           {Cell("xy", cs, rs, 0, 0, 0, 0) : cs \in 1..MaxSpan, rs \in 1..MaxSpan}
           \cup {Cell("xy", 1, 1, Pad, 0, Pad, 0), Cell("xy", 1, 1, 0, Pad, 0, Pad),
                 Cell("xy", 2, 2, Pad, 2 * Pad, 3 * Pad, 4 * Pad)}
      [] F = "shared" ->
           {SpecNone, Cell("xy", 1, 1, 0, 0, 0, 0)}
      [] F = "inset" ->
           {SpecNone, Cell("xy", 1, 1, 0, 0, 0, 0)}
      [] F = "titles" ->
           {SpecNone, Cell("xy", 1, 1, 0, 0, 0, 0), Cell("xy", 2, 1, 0, 0, 0, 0)}
      [] F = "link" ->
           {SpecNone, Cell("xy", 1, 1, 0, 0, 0, 0), Cell("xy", 2, 1, 0, 0, 0, 0),
            Cell("xy", 1, 2, 0, 0, 0, 0), Cell("polar", 1, 1, 0, 0, 0, 0)}
      [] F = "kinds" ->
           {SpecNone} \cup {Cell(t, 1, 1, 0, 0, 0, 0) : t \in TypeStrings}
      [] F = "again" ->
           {SpecNone, Cell("xy", 1, 1, 0, 0, 0, 0), Cell("polar", 1, 1, 0, 0, 0, 0)}
      [] OTHER ->
           {SpecNone} \cup
           {Cell(k, 1, 1, 0, 0, 0, 0) : k \in {"xy", "polar", "geo", "domain"}}

\* traces: the properties the trace type has, and the values set on it
Trace(type, props) == [type |-> type, props |-> props, values |-> <<>>]

Traces(F) ==
    IF F = "table"
    THEN {Trace("scatter", {"xaxis", "yaxis"}), Trace("pie", {"domain"}),
          Trace("scatterpolar", {"subplot"}), Trace("scattergeo", {"geo"}),
          Trace("xonly", {"xaxis"})}
    ELSE {Trace("scatter", {"xaxis", "yaxis"})}

\* the (row, col) pairs the calls on the figure are made with
Probes(F, a) ==
    IF F = "table"
    THEN ((-1)..(a.rows + 1)) \X ((-1)..(a.cols + 1))
    ELSE {<<1, 1>>}

-----------------------------------------------------------------------------
(* The program *)

Init ==
    /\ pc = "idle"
    /\ args = ArgsNone
    /\ specs = <<>>
    /\ i = 0
    /\ layout = <<>>
    /\ max_subplot_ids = _get_initial_max_subplot_ids
    /\ grid_ref = <<>>
    /\ insets_ref = <<>>
    /\ domains_grid = <<>>
    /\ list_of_domains = <<>>
    /\ exc = ""
    /\ fig = FigNone
    /\ call = CallNone

\* valid_shared_vals (line 515)
valid_shared_vals == {"None", "True", "False", "rows", "cols", "all"}

\* the argument checks of make_subplots (lines 333-358, 520-535)
ArgsRaise(a) ==
    \/ a.rows <= 0
    \/ a.cols <= 0
    \/ a.start_cell \notin {"bottom-left", "top-left"}
    \/ a.shared_xaxes \notin valid_shared_vals
    \/ a.shared_yaxes \notin valid_shared_vals

\* [[None for c in range(cols)] for r in range(rows)] (lines 573, 576)
NoneGrid(rows, cols, none) ==
    [r \in 0..(rows - 1) |-> [c \in 0..(cols - 1) |-> none]]

\* SpanTooLarge with the column bound one too small
SpanTooLarge_OffByOne(c_spanned, r_spanned, rows, cols) ==
    c_spanned >= cols - 1 \/ r_spanned >= rows

\* the span checks of the loop over specs (lines 594-599)
SpanTooLarge(c_spanned, r_spanned, rows, cols) ==
    c_spanned >= cols \/ r_spanned >= rows

\* StoreRef with the element put in the first column of the row
StoreRef_FirstCol(gref, r, c, grid_ref_element) ==
    [gref EXCEPT ![r][0] = grid_ref_element]

\* grid_ref[r][c] = grid_ref_element (line 626)
StoreRef(gref, r, c, grid_ref_element) ==
    [gref EXCEPT ![r][c] = grid_ref_element]

\* make_subplots is called: lines 319-580, up to the loop over specs.  In
\* the family "again" it is called again once it has returned or raised; the
\* figure of the call before is still held by the caller.
make_subplots(F) ==
    /\ pc = "idle" \/ (F = "again" /\ pc \in {"done", "error"})
    /\ \E a \in Calls(F) :
          /\ args' = a
          /\ IF ArgsRaise(a)
             THEN /\ pc' = "error"
                  /\ exc' = "args"
                  /\ UNCHANGED <<specs, grid_ref, domains_grid>>
             ELSE /\ pc' = "grid"
                  /\ exc' = ""
                  /\ specs' = NoneGrid(a.rows, a.cols, SpecUnread)
                  /\ domains_grid' = NoneGrid(a.rows, a.cols, DomainNone)
                  /\ grid_ref' = NoneGrid(a.rows, a.cols, RefNone)
    /\ i' = 0
    /\ layout' = <<>>
    /\ list_of_domains' = <<>>
    /\ max_subplot_ids' = _get_initial_max_subplot_ids
    /\ insets_ref' = <<>>
    /\ call' = CallNone
    /\ UNCHANGED fig

\* one turn of the loop over specs (lines 583-626), the cell's spec read
GridCell(F) ==
    /\ pc = "grid"
    /\ i < args.rows * args.cols
    /\ LET r == i \div args.cols
           c == i % args.cols
       IN \E spec \in CellChoices(F) :
          /\ specs' = [specs EXCEPT ![r][c] = spec]
          /\ IF spec = SpecNone
             THEN /\ pc' = IF i + 1 = args.rows * args.cols
                           THEN "shared_x" ELSE "grid"
                  /\ i' = i + 1
                  /\ UNCHANGED <<layout, max_subplot_ids, grid_ref,
                                 domains_grid, list_of_domains, exc>>
             ELSE IF SpanTooLarge(c + spec.colspan - 1, r + spec.rowspan - 1,
                                  args.rows, args.cols)
             THEN /\ pc' = "error"
                  /\ exc' = "span"
                  /\ UNCHANGED <<i, layout, max_subplot_ids, grid_ref,
                                 domains_grid, list_of_domains>>
             ELSE LET d == CellDomain(args, r, c, spec)
                      res == _init_subplot(layout, spec.type, d[1], d[2],
                                           max_subplot_ids)
                  IN  /\ domains_grid' = [domains_grid EXCEPT ![r][c] = d]
                      /\ list_of_domains' = list_of_domains \o <<d[1], d[2]>>
                      /\ IF res.raised
                         THEN /\ pc' = "error"
                              /\ exc' = "type"
                              /\ UNCHANGED <<i, layout, max_subplot_ids,
                                             grid_ref>>
                         ELSE /\ pc' = IF i + 1 = args.rows * args.cols
                                       THEN "shared_x" ELSE "grid"
                              /\ i' = i + 1
                              /\ layout' = res.layout
                              /\ max_subplot_ids' = res.max_subplot_ids
                              /\ grid_ref' =
                                    StoreRef(grid_ref, r, c,
                                             [res.ref EXCEPT !.spec = spec])
                              /\ UNCHANGED exc
    /\ UNCHANGED <<args, insets_ref, fig, call>>

\* _configure_shared_axes(layout, grid_ref, 'x', shared_xaxes, row_dir), line 628
SharedX ==
    /\ pc = "shared_x"
    /\ pc' = "shared_y"
    /\ layout' = _configure_shared_axes(layout, grid_ref, "x",
                                        args.shared_xaxes, row_dir(args))
    /\ UNCHANGED <<args, specs, i, max_subplot_ids, grid_ref, insets_ref,
                   domains_grid, list_of_domains, exc, fig, call>>

\* _configure_shared_axes(layout, grid_ref, 'y', shared_yaxes, row_dir), line 629
SharedY ==
    /\ pc = "shared_y"
    /\ pc' = "insets"
    /\ i' = 0
    /\ layout' = _configure_shared_axes(layout, grid_ref, "y",
                                        args.shared_yaxes, row_dir(args))
    /\ UNCHANGED <<args, specs, max_subplot_ids, grid_ref, insets_ref,
                   domains_grid, list_of_domains, exc, fig, call>>

\* one turn of the loop over insets (lines 636-673)
Inset ==
    /\ pc = "insets"
    /\ i < Len(args.insets)
    /\ LET inset == args.insets[i + 1]
           r == inset.cell[1] - 1
           c == inset.cell[2] - 1
       IN IF ~(0 <= r /\ r < args.rows) \/ ~(0 <= c /\ c < args.cols)
          THEN /\ pc' = "error"
               /\ exc' = "inset_cell"
               /\ UNCHANGED <<i, layout, max_subplot_ids, insets_ref,
                              list_of_domains>>
          ELSE LET d == InsetDomain(args, r, c, inset)
                   res == _init_subplot(layout, inset.type, d[1], d[2],
                                        max_subplot_ids)
               IN  /\ list_of_domains' = list_of_domains \o <<d[1], d[2]>>
                   /\ IF res.raised
                      THEN /\ pc' = "error"
                           /\ exc' = "type"
                           /\ UNCHANGED <<i, layout, max_subplot_ids,
                                          insets_ref>>
                      ELSE /\ pc' = "insets"
                           /\ UNCHANGED exc
                           /\ i' = i + 1
                           /\ layout' = res.layout
                           /\ max_subplot_ids' = res.max_subplot_ids
                           /\ insets_ref' = Append(insets_ref, res.ref)
    /\ UNCHANGED <<args, specs, grid_ref, domains_grid, fig, call>>

\* layout['annotations'] (lines 685-728): subplot_titles, x_title and y_title
\* are not given, so the annotations are those of the column titles, then
\* those of the row titles
TitleAnnotations(a, dgrid) ==
    (IF a.column_titles # <<>>
     THEN _build_subplot_title_annotations(
              a.column_titles, ColumnTitleDomains(a, dgrid), "top")
     ELSE <<>>)
    \o
    (IF a.row_titles # <<>>
     THEN _build_subplot_title_annotations(
              a.row_titles, RowTitleDomains(a, dgrid), "right")
     ELSE <<>>)

\* the rest of make_subplots (lines 675-767): the grid string is built and the
\* figure returned with the table attached
Return ==
    /\ pc = "insets"
    /\ i = Len(args.insets)
    /\ IF _build_grid_str_raises(args, grid_ref)
       THEN /\ pc' = "error"
            /\ exc' = "grid_str"
            /\ UNCHANGED fig
            /\ UNCHANGED layout
       ELSE /\ pc' = "done"
            /\ layout' = SetItem(layout, AnnotationsKey,
                                 TitleAnnotations(args, domains_grid))
            /\ fig' = [made |-> TRUE, layout |-> layout', _grid_ref |-> grid_ref]
            /\ UNCHANGED exc
    /\ UNCHANGED <<args, specs, i, max_subplot_ids, grid_ref, insets_ref,
                   domains_grid, list_of_domains, call>>

\* a trace is bound to a cell of the figure: _set_trace_grid_reference.  The
\* calls on the figure leave the figure as it is, so one call on each figure
\* reaches every pair of a figure and a call.
Bind(F) ==
    /\ pc = "done"
    /\ call = CallNone
    /\ \E trace \in Traces(F), p \in Probes(F, args) :
          LET res == _set_trace_grid_reference(trace, fig._grid_ref, p[1], p[2])
          IN  call' = [op |-> "bind", row |-> p[1], col |-> p[2],
                       trace_in |-> trace, trace |-> res.trace,
                       outcome |-> IF res.raised THEN "raised" ELSE "ok",
                       handle |-> <<>>]
    /\ UNCHANGED <<pc, args, specs, i, layout, max_subplot_ids, grid_ref,
                   insets_ref, domains_grid, list_of_domains, exc, fig>>

\* a cell of the figure is looked up: _get_grid_subplot
Lookup(F) ==
    /\ pc = "done"
    /\ call = CallNone
    /\ \E p \in Probes(F, args) :
          LET res == _get_grid_subplot(fig, p[1], p[2])
          IN  call' = [op |-> "lookup", row |-> p[1], col |-> p[2],
                       trace_in |-> TraceNone, trace |-> TraceNone,
                       outcome |-> res.outcome, handle |-> res.handle]
    /\ UNCHANGED <<pc, args, specs, i, layout, max_subplot_ids, grid_ref,
                   insets_ref, domains_grid, list_of_domains, exc, fig>>

Next(F) ==
    \/ make_subplots(F)
    \/ GridCell(F)
    \/ SharedX
    \/ SharedY
    \/ Inset
    \/ Return
    \/ Bind(F)
    \/ Lookup(F)

Spec == Init /\ [][Next("main")]_vars
SpecGeom == Init /\ [][Next("geom")]_vars
SpecShared == Init /\ [][Next("shared")]_vars
SpecTable == Init /\ [][Next("table")]_vars
SpecInset == Init /\ [][Next("inset")]_vars
SpecTitles == Init /\ [][Next("titles")]_vars
SpecLink == Init /\ [][Next("link")]_vars
SpecKinds == Init /\ [][Next("kinds")]_vars
SpecAgain == Init /\ [][Next("again")]_vars

-----------------------------------------------------------------------------
(* Vocabulary of the properties *)

\* the grid positions of the call under way, 0-based
GridPositions ==
    {p \in (DOMAIN grid_ref) \X (0..(args.cols - 1)) : TRUE}

IsNone(ref) == ref.subplot_type = "None"

\* the non-null cells of the reference table
NonNullCells == {p \in GridPositions : ~IsNone(grid_ref[p[1]][p[2]])}

\* the subplot records of the call: those of the grid cells and of the insets
RecordIds ==
    {<<"cell", p[1], p[2]>> : p \in NonNullCells}
        \cup {<<"inset", n, 0>> : n \in 1..Len(insets_ref)}

RecordOf(id) ==
    IF id[1] = "cell" THEN grid_ref[id[2]][id[3]] ELSE insets_ref[id[2]]

KeysOf(ref) == {ref.layout_keys[k] : k \in 1..Len(ref.layout_keys)}

\* the records of one subplot kind
RecordsOfKind(K) == {id \in RecordIds : RecordOf(id).subplot_type = K}

-----------------------------------------------------------------------------
(* C1 *)

\* C1: within one make_subplots call no layout identifier is held by two
\* subplot records, those of the grid cells and of the insets together.
\* Violated: two polar cells are both given 'polar1'.
C1_UniqueLayoutIds ==
    \A p \in RecordIds, q \in RecordIds :
        p # q => KeysOf(RecordOf(p)) \cap KeysOf(RecordOf(q)) = {}

-----------------------------------------------------------------------------
(* C2 *)

\* the step allocated a subplot for a grid cell / for an inset
GridAlloc == pc = "grid" /\ i' = i + 1 /\ grid_ref' # grid_ref
InsetAlloc == pc = "insets" /\ i' = i + 1

\* the counters after one allocation of kind K, as the claim has them
CountersAfter(ids, K) ==
    IF K = "xy"
    THEN [ids EXCEPT !["xaxis"] = @ + 1, !["yaxis"] = @ + 1]
    ELSE IF K \in DOMAIN ids
    THEN [ids EXCEPT ![K] = @ + 1]
    ELSE ids

\* C2: an allocation of a subplot of kind K advances the counter of K by one
\* (both axis counters for xy, none for domain) and leaves every other counter
\* as it was; the n-th subplot of a single-container kind K is named K
\* followed by n; no counter ever decreases.
\* Violated: the allocation of a polar subplot writes the scene counter.
C2_CounterFrame ==
    [][ /\ (GridAlloc \/ InsetAlloc) =>
             LET new == IF pc = "grid"
                        THEN grid_ref'[i \div args.cols][i % args.cols]
                        ELSE insets_ref'[Len(insets_ref')]
                 K == new.subplot_type
             IN  /\ max_subplot_ids' = CountersAfter(max_subplot_ids, K)
                 /\ K \in _subplot_types =>
                       new.layout_keys = << <<K, Cardinality(RecordsOfKind(K)) + 1>> >>
        /\ \A k \in DOMAIN max_subplot_ids :
              max_subplot_ids'[k] >= max_subplot_ids[k]
      ]_vars

-----------------------------------------------------------------------------
(* C3 *)

\* two intervals <<start, end>> share more than a point
IntervalsOverlap(a, b) == Max(a[1], b[1]) < Min(a[2], b[2])

\* two rectangles << x_domain, y_domain >> share some area
RectsOverlap(d, e) ==
    IntervalsOverlap(d[1], e[1]) /\ IntervalsOverlap(d[2], e[2])

\* the rectangle make_subplots computed for the non-null cell p
ComputedRect(p) ==
    << Clamp(domains_grid[p[1]][p[2]][1]), Clamp(domains_grid[p[1]][p[2]][2]) >>

\* the rectangle registered in the figure for the xy cell p
RegisteredRect(p) ==
    << fig.layout[grid_ref[p[1]][p[2]].layout_keys[1]].domain,
       fig.layout[grid_ref[p[1]][p[2]].layout_keys[2]].domain >>

\* the grid positions the span of the non-null cell p covers
SpanOf(p) ==
    (p[1]..(p[1] + specs[p[1]][p[2]].rowspan - 1))
        \X (p[2]..(p[2] + specs[p[1]][p[2]].colspan - 1))

\* no grid position lies in the spans of two non-null cells
DisjointSpans ==
    \A p \in NonNullCells, q \in NonNullCells :
        p # q => SpanOf(p) \cap SpanOf(q) = {}

\* no column has a negative width, no row a negative height
\* (spacing * (n - 1) is at most the room there is)
NonNegativeSizes ==
    /\ \A c \in 0..(args.cols - 1) : widths(args)[c] >= 0
    /\ \A r \in 0..(args.rows - 1) : heights(args)[r] >= 0

\* C3 as stated: whenever make_subplots returns a figure, the domain
\* rectangles of any two distinct non-null grid cells do not overlap,
\* whatever spans the cells carry.
\* Violated: specs [[{'colspan': 2}, {}]] is accepted.
C3_NoOverlap ==
    pc = "done" =>
        \A p \in NonNullCells, q \in NonNullCells :
            p # q => ~RectsOverlap(ComputedRect(p), ComputedRect(q))

\* C3 amended: whenever make_subplots returns a figure for a grid in which no
\* grid position lies in the spans of two non-null cells and no column width
\* or row height is negative, the rectangles computed for any two distinct
\* non-null cells do not overlap, and the axis domains registered for an xy
\* cell are that rectangle.
C3_NoOverlapDisjointSpans ==
    pc = "done" /\ DisjointSpans /\ NonNegativeSizes =>
        \A p \in NonNullCells, q \in NonNullCells :
            /\ grid_ref[p[1]][p[2]].subplot_type = "xy" =>
                  RegisteredRect(p) = ComputedRect(p)
            /\ p # q => ~RectsOverlap(ComputedRect(p), ComputedRect(q))

\* a figure whose grid holds a cell spanning two columns and a cell spanning
\* two rows beside other cells, the spans disjoint
C3_Witness ==
    /\ pc = "done"
    /\ DisjointSpans
    /\ Cardinality(NonNullCells) >= 2
    /\ \E p \in NonNullCells : specs[p[1]][p[2]].rowspan = 2
    /\ args.start_cell = "top-left"

-----------------------------------------------------------------------------
(* C4 *)

\* C4: the reference table of a returned figure has rows x cols entries; an
\* entry is null exactly when the spec of its cell is null; the turn of the
\* loop that reads a null cell adds nothing to the layout and advances no
\* counter.
C4_TableShape ==
    /\ [](pc = "done" =>
            /\ PyLen(fig._grid_ref) = args.rows
            /\ \A r \in 0..(args.rows - 1) :
                  /\ PyLen(fig._grid_ref[r]) = args.cols
                  /\ \A c \in 0..(args.cols - 1) :
                        IsNone(fig._grid_ref[r][c]) <=> specs[r][c] = SpecNone)
    /\ [][pc = "grid" /\ specs'[i \div args.cols][i % args.cols] = SpecNone =>
            /\ layout' = layout
            /\ max_subplot_ids' = max_subplot_ids
            /\ grid_ref' = grid_ref]_vars

\* specs [[{}, {}], [{'colspan': 2}, None]]: three subplots, one null entry
C4_Witness ==
    /\ pc = "done"
    /\ args.rows = 2 /\ args.cols = 2
    /\ specs[0][0] = spec_defaults /\ specs[0][1] = spec_defaults
    /\ specs[1][0] = [spec_defaults EXCEPT !.colspan = 2]
    /\ specs[1][1] = SpecNone
    /\ Cardinality({p \in GridPositions : ~IsNone(fig._grid_ref[p[1]][p[2]])}) = 3
    /\ IsNone(fig._grid_ref[1][1])

-----------------------------------------------------------------------------
(* C8 *)

\* C8: the turn of the loop that reads a non-null cell whose colspan or
\* rowspan reaches past the grid raises, however many cells were allocated
\* before it, and no figure or table is ever returned; a cell whose spans
\* stay inside the grid does not make the span check raise.
C8_SpanCheck ==
    /\ [][pc = "grid" /\ specs'[i \div args.cols][i % args.cols] # SpecNone =>
            LET r == i \div args.cols
                c == i % args.cols
                spec == specs'[r][c]
            IN  IF c + spec.colspan > args.cols \/ r + spec.rowspan > args.rows
                THEN pc' = "error" /\ exc' = "span" /\ fig' = FigNone
                ELSE exc' # "span"]_vars
    /\ [](pc = "error" => fig = FigNone)

\* the span check raised at a cell after other cells had been allocated
C8_Witness ==
    /\ pc = "error" /\ exc = "span"
    /\ i >= 2
    /\ Cardinality(NonNullCells) >= 2
    /\ specs[i \div args.cols][i % args.cols].rowspan = 2

-----------------------------------------------------------------------------
(* C5, C6, C7: the calls on the figure *)

\* the (row, col) of the call names a cell of the grid
CallInRange ==
    /\ 1 <= call.row /\ call.row <= args.rows
    /\ 1 <= call.col /\ call.col <= args.cols

\* the spec and the table entry of the cell the call names
CallSpec == specs[call.row - 1][call.col - 1]
CallRef == fig._grid_ref[call.row - 1][call.col - 1]

\* the trace properties a subplot of the type wants set
WantedKeys(type) ==
    CASE type = "xy" -> {"xaxis", "yaxis"}
      [] type = "domain" -> {"domain"}
      [] type \in {"polar", "ternary", "mapbox"} -> {"subplot"}
      [] OTHER -> {type}

BindApplies ==
    /\ CallInRange
    /\ CallSpec # SpecNone
    /\ WantedKeys(CallSpec.type) \subseteq call.trace_in.props

\* C5: binding a trace to (row, col) sets the reference keys of the cell on
\* the trace exactly when 1 <= row <= rows, 1 <= col <= cols, the cell is
\* non-null and the trace has every key of the cell; otherwise it raises and
\* the trace is as it was (a row or col of 0 or below never wraps around, a
\* trace with only some of the keys gets none); the table is left as
\* make_subplots built it.
C5_Bind ==
    call.op = "bind" =>
        /\ IF BindApplies
           THEN /\ call.outcome = "ok"
                /\ DOMAIN call.trace.values = WantedKeys(CallSpec.type)
                /\ \A k \in WantedKeys(CallSpec.type) :
                      call.trace.values[k] = CallRef.trace_kwargs[k]
                /\ call.trace.props = call.trace_in.props
           ELSE /\ call.outcome = "raised"
                /\ call.trace = call.trace_in
        /\ fig._grid_ref = grid_ref
        /\ fig.layout = layout

\* a trace bound to a cell of the second row; a trace with one of the two
\* keys refused by an xy cell
C5_Witness ==
    /\ call.op = "bind"
    /\ \/ call.outcome = "ok" /\ call.row = 2 /\ call.trace_in.type = "scatter"
       \/ /\ call.outcome = "raised" /\ CallInRange /\ CallSpec.type = "xy"
          /\ call.trace_in.props = {"xaxis"}

\* C6: looking up (row, col) raises when row or col is outside 1..rows /
\* 1..cols, returns None for a null cell, and otherwise returns by the number
\* of layout keys of the cell: the domain descriptor for none, the one layout
\* container for one, the x and y axis for two; the lookup changes neither
\* the table nor the layout.
C6_Lookup ==
    /\ [](call.op = "lookup" =>
            IF ~CallInRange
            THEN call.outcome = "raised" /\ call.handle = <<>>
            ELSE IF CallSpec = SpecNone
            THEN call.outcome = "None" /\ call.handle = <<>>
            ELSE LET n == Len(CallRef.layout_keys)
                 IN  /\ n = 0 => /\ call.outcome = "domain"
                                 /\ Len(call.handle) = 1
                                 /\ call.handle[1].obj = CallRef.trace_kwargs.domain
                     /\ n = 1 => /\ call.outcome = "single"
                                 /\ Len(call.handle) = 1
                     /\ n = 2 => /\ call.outcome = "xy"
                                 /\ Len(call.handle) = 2
                     /\ n \in 0..2)
    /\ [][call'.op = "lookup" =>
            fig' = fig /\ layout' = layout /\ grid_ref' = grid_ref]_vars

\* a lookup of a polar cell; a lookup of a null cell; a lookup past the grid
C6_Witness ==
    /\ call.op = "lookup"
    /\ \/ call.outcome = "single" /\ CallSpec.type = "polar"
       \/ call.outcome = "None" /\ CallInRange /\ call.row = 2

\* C7: for every non-null cell the layout entries the lookup returns are
\* those the cell's layout_keys name, and they denote the axes / subplot that
\* trace_kwargs sets on a bound trace: 'xaxisN' with the axis id 'xN',
\* 'yaxisN' with 'yN', the container name with the subplot id.
C7_KeysAgree ==
    call.op = "lookup" /\ CallInRange /\ CallSpec # SpecNone =>
        LET keys == CallRef.layout_keys
            kw == CallRef.trace_kwargs
        IN  /\ Len(keys) > 0 =>
                  /\ Len(call.handle) = Len(keys)
                  /\ \A k \in 1..Len(keys) :
                        /\ call.handle[k].key = keys[k]
                        /\ call.handle[k].obj = fig.layout[keys[k]]
            /\ Len(keys) = 2 =>
                  /\ AxisId(keys[1]) = kw.xaxis
                  /\ AxisId(keys[2]) = kw.yaxis
                  /\ keys[1][1] = "xaxis" /\ keys[2][1] = "yaxis"
            /\ Len(keys) = 1 =>
                  /\ DOMAIN kw = WantedKeys(CallSpec.type)
                  /\ \A k \in DOMAIN kw : kw[k] = keys[1]
            /\ Len(keys) = 0 => DOMAIN kw = {"domain"}

\* the lookup of the second of two xy cells: xaxis2 / yaxis2 and x2 / y2
C7_Witness ==
    /\ call.op = "lookup"
    /\ call.outcome = "xy"
    /\ call.handle[1].key = <<"xaxis", 2>>
    /\ CallRef.trace_kwargs.xaxis = <<"x", 2>>

-----------------------------------------------------------------------------
(* C9 *)

\* the values the documentation gives for shared_xaxes / shared_yaxes
DocumentedSharedVals == {"None", "True", "False", "rows", "columns", "all"}

\* C9: make_subplots takes shared_xaxes and shared_yaxes exactly from None,
\* True, False, 'rows', 'columns', 'all' and raises on any other value.
\* Violated: 'columns' is refused, 'cols' is taken.
C9_SharedValsAccepted ==
    pc # "idle" =>
        (exc = "args" <=> ~(/\ args.shared_xaxes \in DocumentedSharedVals
                            /\ args.shared_yaxes \in DocumentedSharedVals))

-----------------------------------------------------------------------------
(* C10 *)

\* the xy cells of single span of column c / of row r
XYCellsOfCol(c) ==
    {p \in NonNullCells : p[2] = c /\ grid_ref[p[1]][p[2]].subplot_type = "xy"
                                   /\ specs[p[1]][p[2]].colspan = 1}
XYCellsOfRow(r) ==
    {p \in NonNullCells : p[1] = r /\ grid_ref[p[1]][p[2]].subplot_type = "xy"
                                   /\ specs[p[1]][p[2]].rowspan = 1}

\* the x / y axis of the cell p in the returned figure, and its name
AxisKeyOf(p, x_or_y) == grid_ref[p[1]][p[2]].layout_keys[layout_key_ind(x_or_y)]
AxisOf(p, x_or_y) == fig.layout[AxisKeyOf(p, x_or_y)]

\* p is the lowest cell on the page among cells / the leftmost among cells
IsBottomMost(p, cells) ==
    \A q \in cells : ComputedRect(p)[2][1] <= ComputedRect(q)[2][1]
IsLeftMost(p, cells) ==
    \A q \in cells : ComputedRect(p)[1][1] <= ComputedRect(q)[1][1]

\* every axis of the group matches the canonical one and hides its labels;
\* the canonical one is left as it was made
Linked(cells, canon, x_or_y) ==
    \A p \in cells :
        IF p = canon
        THEN /\ AxisOf(p, x_or_y).matches = NoId
             /\ AxisOf(p, x_or_y).showticklabels
        ELSE /\ AxisOf(p, x_or_y).matches = AxisId(AxisKeyOf(canon, x_or_y))
             /\ ~AxisOf(p, x_or_y).showticklabels

\* C10: with shared_xaxes = True, in each column the x-axis of the xy cell
\* lowest on the page (in both start_cell modes) is canonical: every other
\* single-span xy cell of the column matches it and hides its tick labels,
\* the canonical axis keeps its labels, and no y-axis is changed; with
\* shared_yaxes = True the same holds of the y-axes of each row and its
\* leftmost xy cell, and no x-axis is changed.
C10_SharedTrue ==
    /\ [](pc = "done" /\ args.shared_xaxes = "True" =>
            \A c \in 0..(args.cols - 1) :
                \A p \in XYCellsOfCol(c) :
                    IsBottomMost(p, XYCellsOfCol(c)) =>
                        Linked(XYCellsOfCol(c), p, "x"))
    /\ [](pc = "done" /\ args.shared_yaxes = "True" =>
            \A r \in 0..(args.rows - 1) :
                \A p \in XYCellsOfRow(r) :
                    IsLeftMost(p, XYCellsOfRow(r)) =>
                        Linked(XYCellsOfRow(r), p, "y"))
    /\ [][pc = "shared_x" /\ args.shared_xaxes = "True" =>
            \A k \in DOMAIN layout : k[1] = "yaxis" => layout'[k] = layout[k]]_vars
    /\ [][pc = "shared_y" /\ args.shared_yaxes = "True" =>
            \A k \in DOMAIN layout : k[1] = "xaxis" => layout'[k] = layout[k]]_vars

\* a top-left figure of two rows with shared_xaxes = True: the x-axis of the
\* first row matches that of the second, which is the lower one
C10_Witness ==
    /\ pc = "done"
    /\ args.shared_xaxes = "True" /\ args.start_cell = "top-left"
    /\ args.rows >= 2
    /\ Cardinality(XYCellsOfCol(0)) >= 2
    /\ AxisOf(<<0, 0>>, "x").matches = AxisId(AxisKeyOf(<<args.rows - 1, 0>>, "x"))

-----------------------------------------------------------------------------
(* C11 *)

\* every cell of the grid holds an xy subplot of single span
FullXYGrid ==
    /\ NonNullCells = GridPositions
    /\ \A p \in GridPositions :
          /\ grid_ref[p[1]][p[2]].subplot_type = "xy"
          /\ specs[p[1]][p[2]].colspan = 1 /\ specs[p[1]][p[2]].rowspan = 1

\* one axis of the grid has no matches, every other one matches it
OneCanonical(x_or_y) ==
    \E canon \in GridPositions :
        \A p \in GridPositions :
            AxisOf(p, x_or_y).matches =
                IF p = canon THEN NoId ELSE AxisId(AxisKeyOf(canon, x_or_y))

\* C11: with shared_xaxes = 'all' on a grid of single-span xy cells one
\* x-axis has no matches and every other x-axis matches it, and the x tick
\* labels are hidden exactly on the cells outside the row lowest on the page;
\* with shared_yaxes = 'all' the same holds of the y-axes, the labels hidden
\* exactly on the cells outside the first column; in both start_cell modes.
C11_SharedAll ==
    /\ pc = "done" /\ FullXYGrid /\ args.shared_xaxes = "all" =>
          /\ OneCanonical("x")
          /\ \A p \in GridPositions :
                AxisOf(p, "x").showticklabels <=> IsBottomMost(p, GridPositions)
    /\ pc = "done" /\ FullXYGrid /\ args.shared_yaxes = "all" =>
          /\ OneCanonical("y")
          /\ \A p \in GridPositions :
                AxisOf(p, "y").showticklabels <=> p[2] = 0

\* a top-left 2 x 2 figure with shared_xaxes = 'all': the top row hides its x
\* labels, the bottom row keeps them
C11_Witness ==
    /\ pc = "done" /\ FullXYGrid
    /\ args.shared_xaxes = "all" /\ args.start_cell = "top-left"
    /\ args.rows = 2 /\ args.cols = 2
    /\ ~AxisOf(<<0, 1>>, "x").showticklabels
    /\ AxisOf(<<1, 1>>, "x").showticklabels
    /\ AxisOf(<<1, 1>>, "x").matches = AxisId(AxisKeyOf(<<1, 0>>, "x"))

-----------------------------------------------------------------------------
(* C12 *)

\* the x and y domain registered for a record: in the layout for an xy or a
\* single-container subplot, in trace_kwargs for a domain subplot
DomainsOf(ref) ==
    IF Len(ref.layout_keys) = 2
    THEN {layout[ref.layout_keys[1]].domain, layout[ref.layout_keys[2]].domain}
    ELSE IF Len(ref.layout_keys) = 1
    THEN {layout[ref.layout_keys[1]].domain.x, layout[ref.layout_keys[1]].domain.y}
    ELSE {ref.trace_kwargs.domain.x, ref.trace_kwargs.domain.y}

InUnit(v) == 0 <= v /\ v <= Scale

\* C12: every domain registered in the layout or stored in the trace_kwargs
\* of a record, of a grid cell or of an inset, has both ends of both
\* intervals inside [0, 1].
\* Violated: only the start is clamped from below and the end from above; a
\* pie inset with l = 1.5 gets the x domain [1.5, 1].
C12_DomainsInUnit ==
    \A id \in RecordIds :
        \A d \in DomainsOf(RecordOf(id)) : InUnit(d[1]) /\ InUnit(d[2])

-----------------------------------------------------------------------------
(* C13 *)

\* the non-null cells without span, and those without padding as well
UnspannedCells ==
    {p \in NonNullCells : /\ specs[p[1]][p[2]].colspan = 1
                          /\ specs[p[1]][p[2]].rowspan = 1}
PlainCells ==
    {p \in UnspannedCells : /\ specs[p[1]][p[2]].l = 0 /\ specs[p[1]][p[2]].r = 0
                            /\ specs[p[1]][p[2]].b = 0 /\ specs[p[1]][p[2]].t = 0}

\* the y domain registered for the xy cell p
YDomain(p) == AxisOf(p, "y").domain
XDomain(p) == AxisOf(p, "x").domain

\* the interval d lies strictly higher than e
Higher(d, e) == d[1] > e[1] /\ d[2] > e[2]

\* C13: with start_cell = 'top-left', of two unspanned cells of a column the
\* one of the smaller row index has the strictly higher y domain, and an
\* unpadded cell of row 1 ends at y = 1; with 'bottom-left' it has the
\* strictly lower y domain, and an unpadded cell of row 1 starts at y = 0.
\* With rows = 2, cols = 1 and the defaults, row 1 has the y domain
\* [0.575, 1] and row 2 has [0, 0.425].
C13_RowOrientation ==
    pc = "done" =>
        /\ \A p \in UnspannedCells, q \in UnspannedCells :
              p[2] = q[2] /\ p[1] < q[1] =>
                  IF args.start_cell = "top-left"
                  THEN Higher(YDomain(p), YDomain(q))
                  ELSE Higher(YDomain(q), YDomain(p))
        /\ \A p \in PlainCells :
              p[1] = 0 =>
                  IF args.start_cell = "top-left"
                  THEN YDomain(p)[2] = Scale
                  ELSE YDomain(p)[1] = 0
        /\ (args = DefaultArgs(2, 1) /\ PlainCells = GridPositions) =>
              /\ YDomain(<<0, 0>>) = <<(575 * Scale) \div 1000, Scale>>
              /\ YDomain(<<1, 0>>) = <<0, (425 * Scale) \div 1000>>

\* make_subplots(rows=2): row 1 above row 2, 0.15 apart
C13_Witness ==
    /\ pc = "done"
    /\ args = DefaultArgs(2, 1)
    /\ PlainCells = GridPositions
    /\ YDomain(<<0, 0>>)[1] - YDomain(<<1, 0>>)[2] = (15 * Scale) \div 100

-----------------------------------------------------------------------------
(* C14 *)

\* the height of the y domain of the cell p
CellHeight(p) == YDomain(p)[2] - YDomain(p)[1]

\* the number of cells of the column of p that lie lower on the page
CellsBelow(p) ==
    Cardinality({q \in NonNullCells : q[2] = p[2] /\ YDomain(q)[1] < YDomain(p)[1]})

\* the cell p has the share w of the height left by the spacing
HasShare(p, w) ==
    CellHeight(p) * SeqSum(args.row_heights) =
        w * (Scale - vertical_spacing(args) * (args.rows - 1))

\* C14: the unpadded, unspanned cell of grid row i has a y domain of height
\* proportional to row_heights[i - 1], in both start_cell modes; heights
\* given through row_width go to the rows from the lowest on the page to the
\* highest, whatever start_cell is; the heights of the rows of a column and
\* vertical_spacing * (rows - 1) add up to 1.
C14_RowHeights ==
    pc = "done" /\ PlainCells = GridPositions =>
        /\ args.row_heights # <<>> /\ ~args.use_legacy_row_heights_order =>
              \A p \in GridPositions : HasShare(p, args.row_heights[p[1] + 1])
        /\ args.row_heights # <<>> /\ args.use_legacy_row_heights_order =>
              \A p \in GridPositions :
                  HasShare(p, args.row_heights[CellsBelow(p) + 1])
        /\ \A c \in 0..(args.cols - 1) :
              SumTo([r \in 0..(args.rows - 1) |-> CellHeight(<<r, c>>)], args.rows)
                  + vertical_spacing(args) * (args.rows - 1) = Scale

\* a top-left figure of three rows with row_width = [1, 2, 3]: the top row is
\* the tallest of the three
C14_Witness ==
    /\ pc = "done" /\ PlainCells = GridPositions
    /\ args.start_cell = "top-left" /\ args.rows = 3
    /\ args.row_heights = <<1, 2, 3>>
    /\ args.use_legacy_row_heights_order
    /\ CellHeight(<<0, 0>>) = 3 * CellHeight(<<2, 0>>)

-----------------------------------------------------------------------------
(* C15 *)

\* the host cell of the n-th inset, 0-based, and whether it is in the grid
HostOf(n) == <<args.insets[n].cell[1] - 1, args.insets[n].cell[2] - 1>>
HostInGrid(n) ==
    /\ 0 <= HostOf(n)[1] /\ HostOf(n)[1] < args.rows
    /\ 0 <= HostOf(n)[2] /\ HostOf(n)[2] < args.cols

\* the x and y domain computed for the n-th inset: the domains of the insets
\* follow those of the grid cells in list_of_domains
InsetRect(n) ==
    LET base == 2 * Cardinality(NonNullCells) + 2 * (n - 1)
    IN  << list_of_domains[base + 1], list_of_domains[base + 2] >>

\* the rectangle of the n-th inset as laid out in the rectangle host
InsetInHost(n, host) ==
    LET inset == args.insets[n]
        hw == host[1][2] - host[1][1]
        hh == host[2][2] - host[2][1]
        x_s == host[1][1] + (inset.l * hw) \div Scale
        y_s == host[2][1] + (inset.b * hh) \div Scale
    IN  << <<x_s, IF inset.w = <<>> THEN host[1][2]
                  ELSE x_s + (inset.w[1] * hw) \div Scale>>,
           <<y_s, IF inset.h = <<>> THEN host[2][2]
                  ELSE y_s + (inset.h[1] * hh) \div Scale>> >>

\* C15: the domain of every inset whose host cell is in the grid is computed
\* from the origin, width and height of the host cell itself, in both
\* start_cell modes and for any column_widths / row_heights; an inset whose
\* cell is outside the grid makes make_subplots raise.
\* Violated: the height used is heights[-1 - r], which in 'bottom-left' is
\* the height of the row opposite to the host.
C15_InsetInHost ==
    /\ \A n \in 1..Len(insets_ref) :
          /\ HostInGrid(n)
          /\ HostOf(n) \in PlainCells =>
                InsetRect(n) =
                    InsetInHost(n, domains_grid[HostOf(n)[1]][HostOf(n)[2]])
    /\ pc = "done" => \A n \in 1..Len(args.insets) : HostInGrid(n)

-----------------------------------------------------------------------------
(* C16, C17: the titles *)

\* the annotations of the returned figure
Annotations == fig.layout[AnnotationsKey]

\* the annotations with the text and the edge
AnnotationsOf(text, title_edge) ==
    {n \in 1..Len(Annotations) :
        Annotations[n].text = text /\ Annotations[n].title_edge = title_edge}

Midpoint(d) == (d[1] + d[2]) \div 2

\* C16: row_titles[i] is anchored at the right edge of the x domain and the
\* middle of the y domain of the subplot in the last column of grid row
\* i + 1, in both start_cell modes.
\* Violated: with start_cell = 'top-left' the titles are dealt out from the
\* last grid row to the first.
C16_RowTitles ==
    (/\ pc = "done" /\ args.row_titles # <<>>
     /\ \A r \in 0..(args.rows - 1) : <<r, args.cols - 1>> \in PlainCells) =>
        \A r \in 0..(args.rows - 1) :
            args.row_titles[r + 1] # "" =>
                /\ AnnotationsOf(args.row_titles[r + 1], "right") # {}
                /\ \A n \in AnnotationsOf(args.row_titles[r + 1], "right") :
                      /\ Annotations[n].x = XDomain(<<r, args.cols - 1>>)[2]
                      /\ Annotations[n].y = Midpoint(YDomain(<<r, args.cols - 1>>))

\* the grid row highest on the page
TopRow == IF args.start_cell = "top-left" THEN 0 ELSE args.rows - 1

\* C17: the annotation of every non-empty column_titles[c] has x at the
\* middle of the x domain and y at the upper end of the y domain of the
\* subplot in column c of the grid row highest on the page, whatever cells
\* of that row are null; no title stands over another column.
\* Violated: the titles are dealt out to the non-null cells of the row, in
\* order, so a null cell moves every later title one column on.
C17_ColumnTitles ==
    pc = "done" /\ args.column_titles # <<>> =>
        \A c \in 0..(args.cols - 1) :
            args.column_titles[c + 1] # "" =>
                /\ <<TopRow, c>> \in NonNullCells =>
                      AnnotationsOf(args.column_titles[c + 1], "top") # {}
                /\ \A n \in AnnotationsOf(args.column_titles[c + 1], "top") :
                      /\ <<TopRow, c>> \in NonNullCells
                      /\ Annotations[n].x = Midpoint(XDomain(<<TopRow, c>>))
                      /\ Annotations[n].y = YDomain(<<TopRow, c>>)[2]

-----------------------------------------------------------------------------
(* C18 *)

\* the xy records of the call, and the place of a record in allocation
\* order: the grid cells in row-major order, then the insets
XYRecords == RecordsOfKind("xy")
OrderOf(id) ==
    IF id[1] = "cell" THEN id[2] * args.cols + id[3]
    ELSE args.rows * args.cols + id[2]

\* the record is the k-th xy record allocated
XYRank(id) == Cardinality({q \in XYRecords : OrderOf(q) <= OrderOf(id)})

-----------------------------------------------------------------------------
(* C19 *)

\* left edge of column c and bottom edge of the p-th row from the bottom,
\* from the widths, the heights and the spacings
ColumnOrigin(c) == SumTo(widths(args), c) + c * horizontal_spacing(args)
RowBottom(p) == SumTo(heights(args), p) + p * vertical_spacing(args)
RowTop(p) == RowBottom(p) + heights(args)[p]

\* how far from the bottom of the figure row q of specs is drawn
VisualPos(q) ==
    IF args.start_cell = "bottom-left" THEN q ELSE args.rows - 1 - q

SpannedRows(p) == p[1]..(p[1] + specs[p[1]][p[2]].rowspan - 1)
LowestPos(p) == CHOOSE v \in {VisualPos(q) : q \in SpannedRows(p)} :
                    \A q \in SpannedRows(p) : v <= VisualPos(q)
HighestPos(p) == CHOOSE v \in {VisualPos(q) : q \in SpannedRows(p)} :
                     \A q \in SpannedRows(p) : v >= VisualPos(q)

-----------------------------------------------------------------------------
(* C20 *)

\* the xy cells of the grid, and the x / y axis of one in the layout so far
XYCells == {p \in NonNullCells : grid_ref[p[1]][p[2]].subplot_type = "xy"}
LayoutAxis(ref, x_or_y) == layout[ref.layout_keys[layout_key_ind(x_or_y)]]

\* the axis is as _init_subplot_xy made it
Untouched(axis) == axis.matches = NoId /\ axis.showticklabels

\* the span of the cell along the columns (x) or along the rows (y)
SpanAlong(p, x_or_y) ==
    IF x_or_y = "x" THEN specs[p[1]][p[2]].colspan ELSE specs[p[1]][p[2]].rowspan
Spanned(p) == specs[p[1]][p[2]].colspan > 1 \/ specs[p[1]][p[2]].rowspan > 1

\* the ids that some x / y axis of the layout matches
MatchedIds(x_or_y) ==
    {layout[k].matches :
        k \in {n \in DOMAIN layout :
                  /\ n[1] = (IF x_or_y = "x" THEN "xaxis" ELSE "yaxis")
                  /\ layout[n].matches # NoId}}

\* the Linker leaves alone the axes of the insets and the subplots that are
\* not xy
OthersUnlinked ==
    /\ \A n \in 1..Len(insets_ref) :
          IF insets_ref[n].subplot_type = "xy"
          THEN \A d \in {"x", "y"} : Untouched(LayoutAxis(insets_ref[n], d))
          ELSE \A k \in KeysOf(insets_ref[n]) : DOMAIN layout[k] = {"domain"}
    /\ \A p \in NonNullCells \ XYCells :
          \A k \in KeysOf(grid_ref[p[1]][p[2]]) : DOMAIN layout[k] = {"domain"}
    /\ \A d \in {"x", "y"} : \A n \in 1..Len(insets_ref) :
          insets_ref[n].subplot_type = "xy" =>
              AxisId(insets_ref[n].layout_keys[layout_key_ind(d)])
                  \notin MatchedIds(d)

\* C20 as stated: a cell with colspan > 1 or rowspan > 1 never gets matches
\* or showticklabels set on either axis and is never the canonical axis, in
\* every sharing mode; inset axes and subplots that are not xy are never
\* modified.
C20_SpannedNeverAliased ==
    /\ \A p \in XYCells : Spanned(p) =>
          \A d \in {"x", "y"} :
              /\ Untouched(LayoutAxis(grid_ref[p[1]][p[2]], d))
              /\ AxisId(AxisKeyOf(p, d)) \notin MatchedIds(d)
    /\ OthersUnlinked

\* C20 amended: in the pass over the x axes a cell with colspan > 1, and in
\* the pass over the y axes a cell with rowspan > 1, never gets matches or
\* showticklabels set on that axis and is never the canonical axis, in every
\* sharing mode; a cell that spans only across the other direction is linked
\* like a cell that spans nothing; inset axes and subplots that are not xy
\* are never modified.
C20_SpannedAlongNeverAliased ==
    /\ \A p \in XYCells : \A d \in {"x", "y"} :
          SpanAlong(p, d) > 1 =>
              /\ Untouched(LayoutAxis(grid_ref[p[1]][p[2]], d))
              /\ AxisId(AxisKeyOf(p, d)) \notin MatchedIds(d)
    /\ OthersUnlinked

\* shared_xaxes = 'all' over a 2 x 2 grid whose upper row is one cell of two
\* columns: the two cells of the lower row are linked, the wide one is not
C20_Witness ==
    /\ pc = "done"
    /\ args.rows = 2 /\ args.cols = 2
    /\ args.start_cell = "top-left"
    /\ args.shared_xaxes = "all"
    /\ specs[0][0].colspan = 2
    /\ XYCells = {<<0, 0>>, <<1, 0>>, <<1, 1>>}
    /\ LayoutAxis(grid_ref[1][1], "x").matches = AxisId(AxisKeyOf(<<1, 0>>, "x"))
    /\ Untouched(LayoutAxis(grid_ref[0][0], "x"))

-----------------------------------------------------------------------------
(* C21 *)

\* the keys that trace_kwargs is to have for a subplot type
KwargsKeysOf(kind) ==
    IF kind = "xy" THEN {"xaxis", "yaxis"}
    ELSE IF kind \in {"polar", "ternary", "mapbox"} THEN {"subplot"}
    ELSE {kind}

\* the record is well-formed for its kind, against the layout so far
WellFormed(ref) ==
    /\ ref.subplot_type \in
          {"xy", "scene", "geo", "polar", "ternary", "mapbox", "domain"}
    /\ Len(ref.layout_keys) = 2 <=> ref.subplot_type = "xy"
    /\ Len(ref.layout_keys) = 1 <=>
          ref.subplot_type \in {"scene", "geo", "polar", "ternary", "mapbox"}
    /\ Len(ref.layout_keys) = 0 <=> ref.subplot_type = "domain"
    /\ DOMAIN ref.trace_kwargs = KwargsKeysOf(ref.subplot_type)
    /\ \A k \in KeysOf(ref) : k \in DOMAIN layout
    /\ ref.subplot_type = "xy" =>
          /\ layout[ref.layout_keys[1]].anchor = AxisId(ref.layout_keys[2])
          /\ layout[ref.layout_keys[2]].anchor = AxisId(ref.layout_keys[1])
          /\ ref.trace_kwargs.xaxis = AxisId(ref.layout_keys[1])
          /\ ref.trace_kwargs.yaxis = AxisId(ref.layout_keys[2])

AllWellFormed == \A id \in RecordIds : WellFormed(RecordOf(id))

\* C21: after every step each record of the grid and of the insets is
\* well-formed for its kind: layout_keys of length 2 iff 'xy', 1 iff one of
\* scene/geo/polar/ternary/mapbox, 0 iff 'domain'; trace_kwargs with the keys
\* {xaxis, yaxis}, {subplot}, {the kind} or {domain}; every layout key in
\* the layout; the two axes of an xy record anchored to each other.  The
\* step on which another type string raises leaves the counters and the
\* layout as they were.
C21_WellFormedRecords ==
    [][/\ AllWellFormed'
       /\ exc' = "type" /\ exc # "type" =>
             UNCHANGED <<layout, max_subplot_ids, grid_ref, insets_ref>>]_vars

\* a mapbox cell is made, then the type of the second cell is not known
C21_Witness ==
    /\ pc = "error" /\ exc = "type"
    /\ args.cols = 2
    /\ i = 1
    /\ grid_ref[0][0].subplot_type = "mapbox"
    /\ specs[0][1].type = "bogus"

-----------------------------------------------------------------------------
(* C22 *)

\* the reasons for which make_subplots is to fail: the arguments, a span
\* that leaves the grid, an inset cell outside the grid, a type not known
DocumentedFailures == {"args", "span", "inset_cell", "type"}

\* C22: make_subplots fails only for the documented reasons: a call whose
\* arguments are valid, whose spans and inset cells are inside the grid and
\* whose types are known returns a figure with its table, also when every
\* cell of the grid is null and when the host cell of an inset is null.
C22_FailsOnlyAsDocumented ==
    /\ pc = "error" => exc \in DocumentedFailures
    /\ pc = "done" => fig.made /\ fig._grid_ref = grid_ref

====
